---- MODULE Spec2Model ----
(***************************************************************************)
(* Model of the binding / Function / registry metadata layer of            *)
(* azure.functions.decorators and azure.functions._decorators.             *)
(*                                                                         *)
(* The repository holds two copies of the object model: the public module  *)
(* decorators.py (Function with a DummyTrigger placeholder, FunctionsApp   *)
(* overriding the decorators) and the private module _decorators.py        *)
(* (Function with a None trigger slot, Scaffold and its FunctionsApp).     *)
(* The variable `module` says which copy a behaviour runs.                 *)
(***************************************************************************)
EXTENDS Integers, Sequences, FiniteSets, TLC

VARIABLES
    module,       \* "decorators" or "_decorators": the copy of the classes in use
    script_file,  \* Scaffold.script_file of the registry
    functions,    \* Scaffold.functions / FunctionsApp.functions: list of Function references
    heap,         \* the Function objects created so far, indexed by reference
    history       \* log of the calls made so far, each with its arguments and outcome

vars == <<module, script_file, functions, heap, history>>

(***************************************************************************)
(* Bounds                                                                  *)
(***************************************************************************)
MaxCalls == 4

MaxFunctionCalls == 5

(***************************************************************************)
(* Python values                                                           *)
(***************************************************************************)
Modules == {"decorators", "_decorators"}

\* Optional[...]: None is the empty tuple, a value x is <<x>>
None == <<>>

Some(x) == <<x>>

NoneObject == [cls |-> "NoneType"]

DummyTrigger == [cls |-> "DummyTrigger"]

\* bool(x) of an optional string: None and "" are falsy
TruthyStr(o) == o # None /\ o[1] # ""

\* bool(x) of an object reference: None is falsy, instances without __bool__ are truthy
TruthyObj(o) == o # NoneObject

\* `script_file or "dummy"`
ScriptFileOrDummy(o) == IF TruthyStr(o) THEN o[1] ELSE "dummy"

Return(v) == [kind |-> "return", value |-> v]

Raise(e) == [kind |-> "raise", error |-> e]

Last(s) == s[Len(s)]

(***************************************************************************)
(* Enumerated option types: StringifyEnum.__str__ returns str(self.value)  *)
(***************************************************************************)
BindingDirectionValue(member) ==
    CASE member = "IN" -> "in"
      [] member = "OUT" -> "out"

HttpMethodValue(member) ==
    CASE member = "GET" -> "GET"
      [] member = "POST" -> "POST"
      [] member = "PATCH" -> "PATCH"
      [] member = "PUT" -> "PUT"

AuthLevelValue(member) ==
    CASE member = "FUNCTION" -> "function"
      [] member = "ANONYMOUS" -> "anonymous"
      [] member = "ADMIN" -> "admin"

(***************************************************************************)
(* Binding variants                                                        *)
(***************************************************************************)
GetBindingName(cls) ==
    CASE cls = "EventHubTrigger" -> "EventHubTrigger"
      [] cls = "HttpTrigger" -> "httpTrigger"
      [] cls = "Http" -> "http"
      [] cls = "BlobOutput" -> "blob"
      [] cls = "BlobInput" -> "blob"
      [] cls = "BlobTrigger" -> "blobTrigger"

\* Binding.__init__: direction, binding_type, name
BindingInit(cls, name, direction) ==
    [cls |-> cls, direction |-> direction,
     binding_type |-> GetBindingName(cls), name |-> name]

\* Trigger.__init__: is_trigger, direction IN
TriggerInit(cls, name) ==
    [is_trigger |-> TRUE] @@ BindingInit(cls, name, "IN")

InputBindingInit(cls, name) == BindingInit(cls, name, "IN")

OutputBindingInit(cls, name) == BindingInit(cls, name, "OUT")

NewEventHubTrigger(name, connection) ==
    [connection |-> connection] @@ TriggerInit("EventHubTrigger", name)

NewHttpTrigger(name, methods, auth_level, route) ==
    [auth_level |-> auth_level, route |-> route, methods |-> methods]
        @@ TriggerInit("HttpTrigger", name)

NewHttp(name) == OutputBindingInit("Http", name)

NewBlobOutput(name, connection, path, data_type) ==
    [connection |-> connection, path |-> path, data_type |-> data_type]
        @@ OutputBindingInit("BlobOutput", name)

NewBlobInput(name, connection, path, data_type) ==
    [connection |-> connection, path |-> path, data_type |-> data_type]
        @@ InputBindingInit("BlobInput", name)

NewBlobTrigger(name, connection, path, data_type) ==
    [connection |-> connection, path |-> path, data_type |-> data_type]
        @@ TriggerInit("BlobTrigger", name)

\* isinstance(b, Trigger)
IsTrigger(b) == "is_trigger" \in DOMAIN b

\* mutation: every binding reports the direction "in"
GetBindingDirection_AlwaysIn(b) == BindingDirectionValue("IN")

GetBindingDirection(b) == BindingDirectionValue(b.direction)

BlobDictRepr(b) ==
    [type |-> GetBindingName(b.cls),
     direction |-> GetBindingDirection(b),
     name |-> b.name,
     dataType |-> b.data_type,
     path |-> b.path,
     connection |-> b.connection]

HttpTriggerDictRepr(m, b) ==
    LET dict_repr ==
            [authLevel |-> AuthLevelValue(b.auth_level),
             type |-> IF m = "_decorators" THEN b.binding_type
                                            ELSE GetBindingName(b.cls),
             direction |-> GetBindingDirection(b),
             name |-> b.name]
    IN  IF b.methods # None
        THEN [methods |-> [i \in 1..Len(b.methods[1]) |->
                              HttpMethodValue(b.methods[1][i])]] @@ dict_repr
        ELSE dict_repr

\* <variant>.get_dict_repr() of module m
BindingGetDictRepr(m, b) ==
    CASE b.cls = "EventHubTrigger" ->
            [connection |-> b.connection, name |-> b.name]
      [] b.cls = "HttpTrigger" -> HttpTriggerDictRepr(m, b)
      [] b.cls = "Http" ->
            [type |-> GetBindingName(b.cls),
             direction |-> GetBindingDirection(b),
             name |-> b.name]
      [] b.cls \in {"BlobOutput", "BlobInput", "BlobTrigger"} -> BlobDictRepr(b)

(***************************************************************************)
(* Function record                                                         *)
(***************************************************************************)
\* mutation: insert(0, x) instead of append(x)
ListAppend_Prepend(l, x) == <<x>> \o l

\* list.append(x)
ListAppend(l, x) == Append(l, x)

\* Function.__init__(func, script_file)
FunctionInit(m, func, sf) ==
    [_func |-> func,
     _trigger |-> IF m = "decorators" THEN DummyTrigger ELSE NoneObject,
     _bindings |-> <<>>,
     script_file |-> ScriptFileOrDummy(sf)]

\* Function.add_binding
AddBinding(m, f, binding) ==
    [f EXCEPT !._bindings = ListAppend(@, binding)]

\* mutation: add_trigger without its guard
AddTriggerRaises_Never(m, f) == FALSE

\* the guard of Function.add_trigger: TRUE when it raises ValueError
AddTriggerRaises(m, f) ==
    IF m = "decorators"
    THEN TruthyObj(f._trigger) /\ f._trigger.cls # "DummyTrigger"
    ELSE TruthyObj(f._trigger)

\* mutation: add_trigger sets the slot and leaves the bindings list alone
AddTrigger_NoAppend(m, f, trigger) == [f EXCEPT !._trigger = trigger]

\* Function.add_trigger past its guard
AddTrigger(m, f, trigger) ==
    IF m = "decorators"
    THEN [f EXCEPT !._trigger = trigger,
                   !._bindings = ListAppend(@, trigger)]
    ELSE [f EXCEPT !._trigger = trigger]

\* Function.get_dict_repr: the outcome of the call
FunctionGetDictRepr(m, f) ==
    LET reprs == [i \in 1..Len(f._bindings) |->
                     BindingGetDictRepr(m, f._bindings[i])]
    IN  IF m = "decorators"
        THEN Return([scriptFile |-> f.script_file, bindings |-> reprs])
        ELSE IF f._trigger = NoneObject
             THEN Raise("AttributeError")
             ELSE Return([scriptFile |-> f.script_file,
                          bindings |-> <<BindingGetDictRepr(m, f._trigger)>>
                                           \o reprs])

(***************************************************************************)
(* Inputs                                                                  *)
(***************************************************************************)
Callables == {"c1", "c2"}

CallableRef(c) == [kind |-> "callable", name |-> c]

FunctionRef(r) == [kind |-> "Function", ref |-> r]

NonCallable == [kind |-> "other"]

ScriptFileArgs == {None, Some(""), Some("function_app.py")}

HttpTriggerReq ==
    NewHttpTrigger("req", Some(<<"GET", "POST">>), "ANONYMOUS", "/api")

Triggers ==
    {HttpTriggerReq,
     NewEventHubTrigger("event", "myconn"),
     NewBlobTrigger("blob", "conn", "in/{name}", "string")}

Bindings ==
    {NewHttp("res"),
     NewBlobInput("src", "conn", "in/{name}", "string"),
     NewBlobOutput("dst", "conn", "out/{name}", "binary")}

AppTriggers == {HttpTriggerReq}

AppBindings == {NewHttp("res"), NewBlobInput("src", "conn", "in/{name}", "string")}

(***************************************************************************)
(* Registry: Scaffold / FunctionsApp                                       *)
(***************************************************************************)
\* mutation: everything that is not callable is taken for a Function record
IsInstanceFunction_NotCallable(func) == func.kind # "callable"

IsInstanceFunction(func) == func.kind = "Function"

IsCallable(func) == func.kind = "callable"

\* mutation: pop(0) instead of pop()
ListLast_First(l) == l[1]

\* the element list.pop() returns
ListLast(l) == l[Len(l)]

\* mutation: the tail is read and not removed
ListPopRest_Peek(l) == l

\* the list list.pop() leaves
ListPopRest(l) == SubSeq(l, 1, Len(l) - 1)

Log(op, arg, func, out) ==
    history' = Append(history, [op |-> op, arg |-> arg, func |-> func, out |-> out])

\* on_trigger(trigger)(func)
OnTrigger(trigger, func) ==
    /\ Len(history) < MaxCalls
    /\ UNCHANGED <<module, script_file>>
    /\ IF IsInstanceFunction(func)
       THEN IF functions = <<>>
            THEN /\ UNCHANGED <<functions, heap>>
                 /\ Log("on_trigger", trigger, func, Raise("IndexError"))
            ELSE LET f == ListLast(functions)
                     rest == ListPopRest(functions)
                 IN  IF AddTriggerRaises(module, heap[f])
                     THEN /\ functions' = rest
                          /\ UNCHANGED heap
                          /\ Log("on_trigger", trigger, func, Raise("ValueError"))
                     ELSE /\ heap' = [heap EXCEPT ![f] = AddTrigger(module, @, trigger)]
                          /\ functions' = ListAppend(rest, f)
                          /\ Log("on_trigger", trigger, func, Return(FunctionRef(f)))
       ELSE IF IsCallable(func)
       THEN LET f == Len(heap) + 1
                obj == FunctionInit(module, func.name, Some(script_file))
            IN  IF AddTriggerRaises(module, obj)
                THEN /\ UNCHANGED <<functions, heap>>
                     /\ Log("on_trigger", trigger, func, Raise("ValueError"))
                ELSE /\ heap' = Append(heap, AddTrigger(module, obj, trigger))
                     /\ functions' = ListAppend(functions, f)
                     /\ Log("on_trigger", trigger, func, Return(FunctionRef(f)))
       ELSE /\ UNCHANGED <<functions, heap>>
            /\ Log("on_trigger", trigger, func, Raise("ValueError"))

\* binding(binding)(func)
Binding(binding, func) ==
    /\ Len(history) < MaxCalls
    /\ UNCHANGED <<module, script_file>>
    /\ IF IsInstanceFunction(func)
       THEN IF functions = <<>>
            THEN /\ UNCHANGED <<functions, heap>>
                 /\ Log("binding", binding, func, Raise("IndexError"))
            ELSE LET f == ListLast(functions)
                     rest == ListPopRest(functions)
                 IN  /\ heap' = [heap EXCEPT ![f] = AddBinding(module, @, binding)]
                     /\ functions' = ListAppend(rest, f)
                     /\ Log("binding", binding, func, Return(FunctionRef(f)))
       ELSE IF IsCallable(func)
       THEN LET f == Len(heap) + 1
                obj == FunctionInit(module, func.name, Some(script_file))
            IN  /\ heap' = Append(heap, AddBinding(module, obj, binding))
                /\ functions' = ListAppend(functions, f)
                /\ Log("binding", binding, func, Return(FunctionRef(f)))
       ELSE /\ UNCHANGED <<functions, heap>>
            /\ Log("binding", binding, func, Raise("ValueError"))

\* FunctionsApp.get_functions()
GetFunctions ==
    /\ Len(history) < MaxCalls
    /\ UNCHANGED <<module, script_file, functions, heap>>
    /\ Log("get_functions", None, None, Return(functions))

FuncValues ==
    {CallableRef(c) : c \in Callables}
        \cup {FunctionRef(r) : r \in 1..Len(heap)}
        \cup {NonCallable}

Init ==
    /\ module \in Modules
    /\ script_file \in {ScriptFileOrDummy(a) : a \in ScriptFileArgs}
    /\ functions = <<>>
    /\ heap = <<>>
    /\ history = <<>>

Next ==
    \/ \E t \in AppTriggers, x \in FuncValues : OnTrigger(t, x)
    \/ \E b \in AppBindings, x \in FuncValues : Binding(b, x)
    \/ GetFunctions

Spec == Init /\ [][Next]_vars

(***************************************************************************)
(* Direct use of one Function record: Function(func, script_file) and its  *)
(* methods add_trigger, add_binding, get_dict_repr                         *)
(***************************************************************************)
\* f.add_trigger(trigger)
FunctionAddTrigger(r, trigger) ==
    /\ Len(history) < MaxFunctionCalls
    /\ UNCHANGED <<module, script_file, functions>>
    /\ IF AddTriggerRaises(module, heap[r])
       THEN /\ UNCHANGED heap
            /\ Log("add_trigger", trigger, FunctionRef(r), Raise("ValueError"))
       ELSE /\ heap' = [heap EXCEPT ![r] = AddTrigger(module, @, trigger)]
            /\ Log("add_trigger", trigger, FunctionRef(r), Return(None))

\* f.add_binding(binding)
FunctionAddBinding(r, binding) ==
    /\ Len(history) < MaxFunctionCalls
    /\ UNCHANGED <<module, script_file, functions>>
    /\ heap' = [heap EXCEPT ![r] = AddBinding(module, @, binding)]
    /\ Log("add_binding", binding, FunctionRef(r), Return(None))

\* f.get_dict_repr()
FunctionGetDictReprCall(r) ==
    /\ Len(history) < MaxFunctionCalls
    /\ UNCHANGED <<module, script_file, functions, heap>>
    /\ Log("get_dict_repr", None, FunctionRef(r), FunctionGetDictRepr(module, heap[r]))

InitFunction ==
    /\ module \in Modules
    /\ script_file = "dummy"
    /\ functions = <<>>
    /\ \E sf \in ScriptFileArgs : heap = <<FunctionInit(module, "c1", sf)>>
    /\ history = <<>>

NextFunction ==
    \/ \E r \in 1..Len(heap), t \in Triggers : FunctionAddTrigger(r, t)
    \/ \E r \in 1..Len(heap), b \in Bindings : FunctionAddBinding(r, b)
    \/ \E r \in 1..Len(heap) : FunctionGetDictReprCall(r)

SpecFunction == InitFunction /\ [][NextFunction]_vars

(***************************************************************************)
(* Serialization of one binding instance                                   *)
(***************************************************************************)
Names == {"req", "item"}

Connections == {"myconn", "AzureWebJobsStorage"}

Paths == {"in/{name}", "out/{name}"}

DataTypes == {"string", "binary", "stream"}

MethodLists == {None, Some(<<>>), Some(<<"GET">>), Some(<<"GET", "POST">>),
                Some(<<"PUT", "PATCH">>)}

AuthLevels == {"FUNCTION", "ANONYMOUS", "ADMIN"}

Routes == {"/api", "/v1"}

AllBindings ==
    {NewEventHubTrigger(n, c) : n \in Names, c \in Connections}
        \cup {NewHttpTrigger(n, ms, a, rt) :
                 n \in Names, ms \in MethodLists, a \in AuthLevels, rt \in Routes}
        \cup {NewHttp(n) : n \in Names}
        \cup {NewBlobOutput(n, c, p, d) :
                 n \in Names, c \in Connections, p \in Paths, d \in DataTypes}
        \cup {NewBlobInput(n, c, p, d) :
                 n \in Names, c \in Connections, p \in Paths, d \in DataTypes}
        \cup {NewBlobTrigger(n, c, p, d) :
                 n \in Names, c \in Connections, p \in Paths, d \in DataTypes}

\* b.get_dict_repr()
BindingGetDictReprCall(b) ==
    /\ history = <<>>
    /\ UNCHANGED <<module, script_file, functions, heap>>
    /\ Log("Binding.get_dict_repr", None, b, Return(BindingGetDictRepr(module, b)))

InitBinding ==
    /\ module \in Modules
    /\ script_file = "dummy"
    /\ functions = <<>>
    /\ heap = <<>>
    /\ history = <<>>

NextBinding == \E b \in AllBindings : BindingGetDictReprCall(b)

SpecBinding == InitBinding /\ [][NextBinding]_vars

(***************************************************************************)
(* Properties of the Function record (checked under SpecFunction)          *)
(***************************************************************************)
\* trigger slot state: EMPTY is the placeholder (DummyTrigger) or None
SlotEmpty(f) == f._trigger \in {NoneObject, DummyTrigger}

IsSuccessfulAdd(e) ==
    e.op \in {"add_trigger", "add_binding"} /\ e.out.kind = "return"

\* the add_trigger / add_binding calls that returned, in call order
Adds(h) == SelectSeq(h, IsSuccessfulAdd)

\* number of positions of s holding x
Count(s, x) == Cardinality({i \in 1..Len(s) : s[i] = x})

Reprs(m, s) == [i \in 1..Len(s) |-> BindingGetDictRepr(m, s[i].arg)]

\* C1: the trigger slot goes EMPTY -> SET on the first add_trigger and never
\* changes afterwards; an add_trigger on a SET slot raises and the slot still
\* holds the first trigger; add_binding never touches the slot.
C1_TriggerSetOnce ==
    [][\A r \in 1..Len(heap) :
          LET e == Last(history')
              called == e.op = "add_trigger" /\ e.func = FunctionRef(r)
          IN  /\ ~SlotEmpty(heap[r]) => heap'[r]._trigger = heap[r]._trigger
              /\ ~called => heap'[r]._trigger = heap[r]._trigger
              /\ called /\ SlotEmpty(heap[r]) =>
                    /\ e.out.kind = "return"
                    /\ heap'[r]._trigger = e.arg
                    /\ ~SlotEmpty(heap'[r])
              /\ called /\ ~SlotEmpty(heap[r]) =>
                    /\ e.out = Raise("ValueError")
                    /\ heap'[r] = heap[r]]_vars

\* C1 witness: a second add_trigger, with another trigger, has failed and the
\* slot holds the first one
C1_Witness ==
    \E i, j \in 1..Len(history) :
        /\ i < j
        /\ history[i].op = "add_trigger" /\ history[i].out.kind = "return"
        /\ history[j].op = "add_trigger" /\ history[j].out.kind = "raise"
        /\ history[j].arg # history[i].arg
        /\ heap[1]._trigger = history[i].arg

\* the calls so far are one successful add_trigger followed by add_binding calls
TriggerThenBindings(h) ==
    LET a == Adds(h)
    IN  /\ Len(a) >= 1
        /\ a[1].op = "add_trigger"
        /\ \A i \in 2..Len(a) : a[i].op = "add_binding"
        /\ \A i \in 1..Len(h) : h[i].op = "add_trigger" => h[i].out.kind = "return"

\* C5: after one successful add_trigger followed by N add_binding calls,
\* get_dict_repr() returns a "bindings" list of length N+1 holding the trigger's
\* serialization exactly once.
C5_TriggerPlusN ==
    (Len(history) > 0 /\ Last(history).op = "get_dict_repr"
                      /\ TriggerThenBindings(history)) =>
        LET out == Last(history).out
            a == Adds(history)
        IN  /\ out.kind = "return"
            /\ Len(out.value.bindings) = (Len(a) - 1) + 1
            /\ Count(out.value.bindings, BindingGetDictRepr(module, a[1].arg)) = 1

\* C5 witness: get_dict_repr() after a trigger and N = 2 bindings
C5_Witness ==
    /\ Len(history) > 0 /\ Last(history).op = "get_dict_repr"
    /\ TriggerThenBindings(history)
    /\ Len(Adds(history)) = 3
    /\ Len(Last(history).out.value.bindings) = 3

\* C6: the "bindings" list get_dict_repr() returns holds the serializations in
\* the order of the add_trigger / add_binding calls: a trigger attached after
\* j bindings is at index j.
C6_DeclarationOrder ==
    (Len(history) > 0 /\ Last(history).op = "get_dict_repr"
                      /\ Last(history).out.kind = "return") =>
        Last(history).out.value.bindings = Reprs(module, Adds(history))

\* C10: get_dict_repr() returns in every state of a record; with the trigger
\* slot EMPTY it returns the scriptFile and exactly the serializations of the
\* bindings added, in order.
C10_ReprAlwaysSucceeds ==
    (Len(history) > 0 /\ Last(history).op = "get_dict_repr") =>
        LET e == Last(history)
            f == heap[e.func.ref]
        IN  /\ e.out.kind = "return"
            /\ SlotEmpty(f) =>
                  e.out.value = [scriptFile |-> f.script_file,
                                 bindings |-> Reprs(module, Adds(history))]

(***************************************************************************)
(* Properties of the registry (checked under Spec)                         *)
(***************************************************************************)
IsDecoratorCall(e) == e.op \in {"on_trigger", "binding"}

\* the decorator applications so far, in order
Decorations(h) == SelectSeq(h, IsDecoratorCall)

\* every application to a Function record is an application to the value the
\* previous application returned, and a callable starts one chain only
Contiguous(d) ==
    \A i \in 1..Len(d) :
        /\ d[i].func.kind = "Function" =>
              i > 1 /\ d[i - 1].out = Return(d[i].func)
        /\ d[i].func.kind = "callable" =>
              \A j \in 1..(i - 1) : d[j].func # d[i].func

\* positions of d that make up the declaration chain of callable c
ChainPositions(d, c) ==
    {q \in 1..Len(d) :
        \E p \in 1..q :
            /\ d[p].func = CallableRef(c)
            /\ \A k \in (p + 1)..q : d[k].func.kind = "Function"}

IsInChain(d, c, i) == i \in ChainPositions(d, c)

RECURSIVE ArgsOf(_, _, _, _)
\* the arguments of the applications of kind op in the chain of c, in order
ArgsOf(d, c, op, i) ==
    IF i > Len(d) THEN <<>>
    ELSE (IF IsInChain(d, c, i) /\ d[i].op = op THEN <<d[i].arg>> ELSE <<>>)
             \o ArgsOf(d, c, op, i + 1)

IsNotTrigger(b) == ~IsTrigger(b)

\* the registry positions holding a record made for callable c
RecordsFor(c) == {i \in 1..Len(functions) : heap[functions[i]]._func = c}

\* C2: with contiguous declarations, a chain of k >= 1 declarations with at most
\* one on_trigger leaves exactly one record for its callable in the list, and
\* that record holds the chain's trigger and all of its bindings.
C2_OneRecordPerCallable ==
    LET d == Decorations(history)
    IN  Contiguous(d) =>
          \A c \in Callables :
              LET trig == ArgsOf(d, c, "on_trigger", 1)
                  binds == ArgsOf(d, c, "binding", 1)
              IN  (ChainPositions(d, c) # {} /\ Len(trig) <= 1) =>
                     /\ Cardinality(RecordsFor(c)) = 1
                     /\ \A i \in RecordsFor(c) :
                           LET f == heap[functions[i]]
                           IN  /\ IF Len(trig) = 1 THEN f._trigger = trig[1]
                                                   ELSE SlotEmpty(f)
                               /\ SelectSeq(f._bindings, IsNotTrigger) = binds

\* C2 witness: binding first, trigger second on one callable, then a second
\* callable: two records for two callables
C2_Witness ==
    LET d == Decorations(history)
    IN  /\ Contiguous(d)
        /\ Len(d) = 4
        /\ d[1].op = "binding" /\ d[1].func.kind = "callable"
        /\ d[2].op = "on_trigger" /\ d[2].func.kind = "Function"
        /\ d[3].func.kind = "callable"
        /\ d[4].func.kind = "Function"
        /\ Len(functions) = 2

AllReturned(d) == \A i \in 1..Len(d) : d[i].out.kind = "return"

IsFirstDeclaration(e) == e.func.kind = "callable"

\* the callables in the order of their first declaration
FirstDeclared(d) ==
    LET s == SelectSeq(d, IsFirstDeclaration)
    IN  [i \in 1..Len(s) |-> s[i].func.name]

\* C3: after successful, contiguous decorator applications get_functions()
\* lists the records in the order their callables were first declared.
C3_FirstDeclaredOrder ==
    LET d == Decorations(history)
    IN  (Len(history) > 0 /\ Last(history).op = "get_functions"
                          /\ Contiguous(d) /\ AllReturned(d)) =>
            LET l == Last(history).out.value
            IN  [i \in 1..Len(l) |-> heap[l[i]]._func] = FirstDeclared(d)

\* C3 witness: get_functions() after two callables, the first with a further binding
C3_Witness ==
    LET d == Decorations(history)
    IN  /\ Len(history) > 0 /\ Last(history).op = "get_functions"
        /\ Contiguous(d) /\ AllReturned(d)
        /\ Len(Last(history).out.value) = 2
        /\ Len(heap[Last(history).out.value[1]]._bindings) = 2

\* C4: every decorator application, returning or raising, leaves the functions
\* list at least as long as before, with every record of it still in it.
C4_ListGrowsMonotonically ==
    [][IsDecoratorCall(Last(history')) =>
          /\ Len(functions') >= Len(functions)
          /\ \A i \in 1..Len(functions) :
                \E j \in 1..Len(functions') : functions'[j] = functions[i]]_vars

\* C7: a decorator applied to a value that is neither a Function record nor a
\* callable raises, and leaves the list and every record unchanged.
C7_InvalidTargetRejected ==
    [][(IsDecoratorCall(Last(history')) /\ Last(history').func = NonCallable) =>
          /\ Last(history').out.kind = "raise"
          /\ functions' = functions
          /\ heap' = heap]_vars

\* C7 witness: an application to a non-callable has failed with records registered
C7_Witness ==
    /\ Len(history) > 0
    /\ IsDecoratorCall(Last(history))
    /\ Last(history).func = NonCallable
    /\ Last(history).out = Raise("ValueError")
    /\ Len(functions) = 2

\* the record the application attached its argument to
Attached(e, f) ==
    IF e.op = "on_trigger" THEN f._trigger = e.arg
    ELSE Len(f._bindings) > 0 /\ Last(f._bindings) = e.arg

\* the application of this step targets a record of the list that is not its tail
TargetsNonTail(e) ==
    /\ IsDecoratorCall(e)
    /\ e.func.kind = "Function"
    /\ \E i \in 1..Len(functions) : functions[i] = e.func.ref
    /\ e.func.ref # Last(functions)

\* what C9 says of such an application
MisdirectedToTail(e) ==
    LET tail == Last(functions)
    IN  /\ e.out = Return(FunctionRef(tail))
        /\ heap'[e.func.ref] = heap[e.func.ref]
        /\ heap'[tail] # heap[tail]
        /\ Attached(e, heap'[tail])

\* C9 as stated: an application to a record R that is not the tail of the list
\* never fails; it attaches to the tail record, leaves R unchanged and returns
\* the tail record.
C9_Original ==
    [][TargetsNonTail(Last(history')) => MisdirectedToTail(Last(history'))]_vars

\* C9 amended: a binding application, and an on_trigger application when the
\* tail record's trigger slot is EMPTY, behave as stated; an on_trigger
\* application when the tail record's slot is SET raises the duplicate-trigger
\* ValueError and leaves R unchanged.
C9_Amended ==
    [][TargetsNonTail(Last(history')) =>
          LET e == Last(history')
              tail == Last(functions)
          IN  IF e.op = "on_trigger" /\ ~SlotEmpty(heap[tail])
              THEN /\ e.out = Raise("ValueError")
                   /\ heap'[e.func.ref] = heap[e.func.ref]
              ELSE MisdirectedToTail(e)]_vars

\* C9 witness: the last application targeted the first of two records and
\* returned the second
C9_Witness ==
    /\ Len(history) > 0
    /\ IsDecoratorCall(Last(history))
    /\ Len(functions) = 2
    /\ Last(history).func = FunctionRef(functions[1])
    /\ Last(history).out = Return(FunctionRef(functions[2]))

(***************************************************************************)
(* Properties of the binding variants (checked under SpecBinding)          *)
(***************************************************************************)
\* the table of variants: binding_type tag and direction by category
VariantTag(cls) ==
    CASE cls = "HttpTrigger" -> "httpTrigger"
      [] cls = "Http" -> "http"
      [] cls \in {"BlobInput", "BlobOutput"} -> "blob"
      [] cls = "BlobTrigger" -> "blobTrigger"

VariantDirection(cls) ==
    IF cls \in {"Http", "BlobOutput"} THEN "out" ELSE "in"

\* C8: every variant but EventHubTrigger serializes with type, direction and
\* name, type being the variant's tag and direction "in" for triggers and
\* input bindings, "out" for output bindings; EventHubTrigger serializes to
\* exactly connection and name.
C8_VariantRepr ==
    (Len(history) > 0 /\ Last(history).op = "Binding.get_dict_repr") =>
        LET b == Last(history).func
            out == Last(history).out
        IN  /\ out.kind = "return"
            /\ IF b.cls = "EventHubTrigger"
               THEN DOMAIN out.value = {"connection", "name"}
               ELSE /\ {"type", "direction", "name"} \subseteq DOMAIN out.value
                    /\ out.value.type = VariantTag(b.cls)
                    /\ out.value.direction = VariantDirection(b.cls)
                    /\ out.value.name = b.name

\* C8 witness: an output binding has been serialized with direction "out"
C8_Witness ==
    /\ Len(history) > 0 /\ Last(history).op = "Binding.get_dict_repr"
    /\ Last(history).func.cls = "BlobOutput"
    /\ Last(history).out.value.direction = "out"

====
